---- MODULE Spec2Model ----
(***************************************************************************)
(* A model of fiftyone.core.view.DatasetView: the chain methods that build *)
(* a view's aggregation pipeline by copy-and-append, and the read          *)
(* operations that hand the pipeline, plus extra stages, to the owning     *)
(* dataset's query set.                                                    *)
(*                                                                         *)
(* Python objects are modelled as a heap.  A list object is an index into  *)
(* `lists`; a DatasetView object is an index into `views` and holds the    *)
(* index of its _pipeline list, so that two views sharing one list object  *)
(* (aliasing) is a state the model can express.                            *)
(***************************************************************************)
EXTENDS Integers, Sequences, FiniteSets, TLC

VARIABLES
    samples,    \* the documents of the owning dataset, in natural order
    lists,      \* heap of list objects: lists[l] is a sequence of stages
    views,      \* heap of DatasetView objects: views[v]._pipeline is a list id
    out,        \* the last call: its name, receiver, arguments and outcome
    calls,      \* the calls the last call made on the owning dataset
    cursors,    \* heap of store cursors opened by aggregate()
    iters       \* heap of generator objects returned by iter_samples()

vars == <<samples, lists, views, out, calls, cursors, iters>>

----------------------------------------------------------------------------
(* Bounds of the model. *)

MaxViews == 3       \* view objects a caller holds at once
MaxStages == 2      \* stages in one view's pipeline
MaxNum == 1         \* largest size / offset argument
MaxIters == 2       \* iterators alive at once
MaxIterStages == 1  \* stages in a view's pipeline, where iterators run

----------------------------------------------------------------------------
(* Identifiers.  A sample id is text; the store's native id is 12 bytes.   *)

Rep(c, n) == [i \in 1..n |-> c]

HexVal ==
    [c \in {"0", "1", "2", "3", "4", "5", "6", "7", "8", "9",
            "a", "b", "c", "d", "e", "f", "A", "B", "C", "D", "E", "F"} |->
        CASE c = "0" -> 0 [] c = "1" -> 1 [] c = "2" -> 2 [] c = "3" -> 3
          [] c = "4" -> 4 [] c = "5" -> 5 [] c = "6" -> 6 [] c = "7" -> 7
          [] c = "8" -> 8 [] c = "9" -> 9
          [] c \in {"a", "A"} -> 10 [] c \in {"b", "B"} -> 11
          [] c \in {"c", "C"} -> 12 [] c \in {"d", "D"} -> 13
          [] c \in {"e", "E"} -> 14 [] c \in {"f", "F"} -> 15]

InvalidId == <<"InvalidId">>

\* bson.ObjectId(text): 24 hexadecimal characters become 12 bytes; any other
\* text raises InvalidId.
ObjectId(s) ==
    IF Len(s) = 24 /\ \A i \in 1..24 : s[i] \in DOMAIN HexVal
    THEN [i \in 1..12 |-> 16 * HexVal[s[2 * i - 1]] + HexVal[s[2 * i]]]
    ELSE InvalidId

IdA == Rep("a", 24)
IdAUpper == Rep("A", 24)
IdB == Rep("b", 24)
IdC == Rep("c", 24)
IdD == Rep("d", 24)             \* well formed, of no document
IdShort == Rep("a", 23)         \* malformed: 23 characters
IdNonHex == Rep("g", 24)        \* malformed: not hexadecimal

IdStrings == {IdA, IdAUpper, IdB, IdD, IdShort, IdNonHex}

\* The id lists handed to select() and exclude().
IdLists == {<<IdA>>, <<IdB, IdAUpper>>, <<IdA, IdShort>>, <<IdNonHex>>}

----------------------------------------------------------------------------
(* Documents of the dataset. *)

Doc(id, name, tags, labels) ==
    [_id |-> ObjectId(id), name |-> name, tags |-> tags, labels |-> labels]

DocA == Doc(IdA, 2, <<"x">>, <<[k |-> "gt", v |-> "cat"]>>)
DocB == Doc(IdB, 3, <<>>, <<>>)
DocC == Doc(IdC, 1, <<"x", "y">>, <<[k |-> "gt", v |-> "cat"]>>)

DocPool == <<DocA, DocB, DocC>>

----------------------------------------------------------------------------
(* Stages: one dict of the aggregation pipeline.  op is the dict's key;    *)
(* sel, str, num and ids carry its value.                                  *)

ASCENDING == 1
DESCENDING == -1

Stage(op, sel, str, num, ids) ==
    [op |-> op, sel |-> sel, str |-> str, num |-> num, ids |-> ids]

MatchTags(tag) == Stage("$match", "tags", tag, 0, <<>>)
MatchFilter(f) == Stage("$match", "filter", f.field, f.value, <<>>)
MatchId(oid) == Stage("$match", "_id", "", 0, <<oid>>)
MatchIdIn(oids) == Stage("$match", "_id.$in", "", 0, oids)
MatchIdNotIn(oids) == Stage("$match", "_id.$not.$in", "", 0, oids)
Sort(field, order) == Stage("$sort", field, "", order, <<>>)
Sample(size) == Stage("$sample", "size", "", size, <<>>)
Limit(size) == Stage("$limit", "", "", size, <<>>)
Skip(n) == Stage("$skip", "", "", n, <<>>)

\* The arguments the callers draw from.
Tags == {"x"}
Groups == {"g"}
Filters == {[field |-> "name", value |-> 2]}
Fields == {"name"}
Nums == (-1)..MaxNum

----------------------------------------------------------------------------
(* The heap. *)

Heap == [lists |-> lists, views |-> views]

Pipeline(v) == lists[views[v]._pipeline]

\* A copy that shares the receiver's list object instead of copying it.
ShallowCopy(H, self) ==
    [lists |-> H.lists,
     views |-> Append(H.views, [_pipeline |-> H.views[self]._pipeline]),
     ret |-> Len(H.views) + 1]

\* DatasetView.__copy__: a new view on the same dataset whose _pipeline is a
\* new list object holding a deep copy of the receiver's stages.
__copy__(H, self) ==
    [lists |-> Append(H.lists, H.lists[H.views[self]._pipeline]),
     views |-> Append(H.views, [_pipeline |-> Len(H.lists) + 1]),
     ret |-> Len(H.views) + 1]

\* DatasetView._copy_with_new_stage: copy the view, append to the copy.
_copy_with_new_stage(H, self, stage) ==
    LET c == __copy__(H, self)
        l == c.views[c.ret]._pipeline
    IN [c EXCEPT !.lists[l] = Append(@, stage)]

\* What a call leaves behind: the objects that existed before it (as the
\* call left them) and the view it returned; a view the call built and did
\* not return is garbage.
Publish(H0, H1, ret) ==
    IF ret <= Len(H0.views)
    THEN [lists |-> SubSeq(H1.lists, 1, Len(H0.lists)),
          views |-> H0.views, ret |-> ret]
    ELSE LET l == H1.views[ret]._pipeline IN
         IF l <= Len(H0.lists)
         THEN [lists |-> SubSeq(H1.lists, 1, Len(H0.lists)),
               views |-> Append(H0.views, [_pipeline |-> l]),
               ret |-> Len(H0.views) + 1]
         ELSE [lists |-> Append(SubSeq(H1.lists, 1, Len(H0.lists)), H1.lists[l]),
               views |-> Append(H0.views, [_pipeline |-> Len(H0.lists) + 1]),
               ret |-> Len(H0.views) + 1]

----------------------------------------------------------------------------
(* The chain methods.  Each takes the heap and returns the heap after the  *)
(* call with the returned view (ret) or the exception raised (exc).        *)

NoArg == <<>>                    \* an optional argument left at None
Opt(S) == {NoArg} \cup {<<x>> : x \in S}

Return(H0, H1) == Publish(H0, H1, H1.ret) @@ [exc |-> ""]

Raise(H0, H1, e) ==
    [lists |-> SubSeq(H1.lists, 1, Len(H0.lists)), views |-> H0.views,
     ret |-> 0, exc |-> e]

Same(H, self) == [lists |-> H.lists, views |-> H.views, ret |-> self]

\* filter as if the group selectors were accepted and ignored.
FilterIgnoringGroups(H, self, tag, insight_group, label_group, flt) ==
    LET v1 == IF tag # NoArg
              THEN _copy_with_new_stage(H, self, MatchTags(tag[1]))
              ELSE Same(H, self)
        v2 == IF flt # NoArg
              THEN _copy_with_new_stage(v1, v1.ret, MatchFilter(flt[1]))
              ELSE v1
    IN Return(H, v2)

\* filter as if tag and filter excluded each other (elif): tag wins.
FilterOneSelector(H, self, tag, insight_group, label_group, flt) ==
    IF insight_group # NoArg \/ label_group # NoArg
    THEN Raise(H, H, "NotImplementedError")
    ELSE IF tag # NoArg
    THEN Return(H, _copy_with_new_stage(H, self, MatchTags(tag[1])))
    ELSE IF flt # NoArg
    THEN Return(H, _copy_with_new_stage(H, self, MatchFilter(flt[1])))
    ELSE Return(H, Same(H, self))

\* DatasetView.filter
filter(H, self, tag, insight_group, label_group, flt) ==
    LET v1 == IF tag # NoArg
              THEN _copy_with_new_stage(H, self, MatchTags(tag[1]))
              ELSE Same(H, self)
    IN IF insight_group # NoArg THEN Raise(H, v1, "NotImplementedError")
       ELSE IF label_group # NoArg THEN Raise(H, v1, "NotImplementedError")
       ELSE LET v2 == IF flt # NoArg
                      THEN _copy_with_new_stage(v1, v1.ret, MatchFilter(flt[1]))
                      ELSE v1
            IN Return(H, v2)

\* DatasetView.sort_by
sort_by(H, self, field, reverse) ==
    LET order == IF reverse THEN DESCENDING ELSE ASCENDING
    IN Return(H, _copy_with_new_stage(H, self, Sort(field, order)))

\* DatasetView.take
take(H, self, size, random) ==
    LET stage == IF random THEN Sample(size) ELSE Limit(size)
    IN Return(H, _copy_with_new_stage(H, self, stage))

\* DatasetView.offset
offset(H, self, n) == Return(H, _copy_with_new_stage(H, self, Skip(n)))

\* [ObjectId(id) for id in sample_ids]
ParseIds(sample_ids) == [i \in 1..Len(sample_ids) |-> ObjectId(sample_ids[i])]

AllParsed(oids) == \A i \in 1..Len(oids) : oids[i] # InvalidId

\* select as if the ids were stored as given, unparsed.
SelectUnparsed(H, self, sample_ids) ==
    Return(H, _copy_with_new_stage(H, self, MatchIdIn(sample_ids)))

\* DatasetView.select
select(H, self, sample_ids) ==
    LET oids == ParseIds(sample_ids)
    IN IF ~AllParsed(oids) THEN Raise(H, H, "InvalidId")
       ELSE Return(H, _copy_with_new_stage(H, self, MatchIdIn(oids)))

\* DatasetView.exclude
exclude(H, self, sample_ids) ==
    LET oids == ParseIds(sample_ids)
    IN IF ~AllParsed(oids) THEN Raise(H, H, "InvalidId")
       ELSE Return(H, _copy_with_new_stage(H, self, MatchIdNotIn(oids)))

----------------------------------------------------------------------------
(* A caller's chain call on one of the views it holds. *)

\* The receivers of a call: any view the caller holds, or (fluent chaining,
\* dataset.view().offset(1).take(1)) the view returned last.
AnyView == 1..Len(views)
LastView == {Len(views)}

Fits(r, R, maxStages) ==
    /\ R = AnyView => Len(r.views) <= MaxViews
    /\ \A l \in 1..Len(r.lists) : Len(r.lists[l]) <= maxStages

Called(op, self, args, r, R, maxStages) ==
    /\ Fits(r, R, maxStages)
    /\ lists' = r.lists
    /\ views' = r.views
    /\ out' = [op |-> op, self |-> self, args |-> args, ret |-> r.ret,
               exc |-> r.exc, val |-> <<>>]
    /\ calls' = <<>>
    /\ UNCHANGED <<samples, cursors, iters>>

CallFilter(R, maxStages) ==
    \E self \in R, tag \in Opt(Tags), ig \in Opt(Groups),
       lg \in Opt(Groups), flt \in Opt(Filters) :
        Called("filter", self,
               [tag |-> tag, insight_group |-> ig, label_group |-> lg,
                filter |-> flt],
               filter(Heap, self, tag, ig, lg, flt), R, maxStages)

CallSortBy(R, maxStages) ==
    \E self \in R, field \in Fields, reverse \in BOOLEAN :
        Called("sort_by", self, [field |-> field, reverse |-> reverse],
               sort_by(Heap, self, field, reverse), R, maxStages)

CallTake(R, maxStages) ==
    \E self \in R, size \in Nums, random \in BOOLEAN :
        Called("take", self, [size |-> size, random |-> random],
               take(Heap, self, size, random), R, maxStages)

CallOffset(R, maxStages) ==
    \E self \in R, n \in Nums :
        Called("offset", self, [offset |-> n],
               offset(Heap, self, n), R, maxStages)

CallSelect(R, maxStages) ==
    \E self \in R, ids \in IdLists :
        Called("select", self, [sample_ids |-> ids],
               select(Heap, self, ids), R, maxStages)

CallExclude(R, maxStages) ==
    \E self \in R, ids \in IdLists :
        Called("exclude", self, [sample_ids |-> ids],
               exclude(Heap, self, ids), R, maxStages)

----------------------------------------------------------------------------
(* The store's aggregation engine, as far as the view's pipelines use it:  *)
(* an ordered list of stages applied to the documents in natural order.    *)
(* A $sample stage makes the result a choice, so a run is a set of         *)
(* possible results.                                                       *)

Min(a, b) == IF a <= b THEN a ELSE b

StageValid(st) == st.op \in {"$limit", "$skip", "$sample"} => st.num >= 0

MatchDoc(st, d) ==
    CASE st.sel = "tags" -> \E i \in 1..Len(d.tags) : d.tags[i] = st.str
      [] st.sel = "filter" -> st.str = "name" /\ d.name = st.num
      [] st.sel = "_id" -> d._id = st.ids[1]
      [] st.sel = "_id.$in" -> \E i \in 1..Len(st.ids) : d._id = st.ids[i]
      [] st.sel = "_id.$not.$in" ->
            ~ \E i \in 1..Len(st.ids) : d._id = st.ids[i]

Before(seq, order, j, i) ==
    \/ order * seq[j].name < order * seq[i].name
    \/ seq[j].name = seq[i].name /\ j < i

SortDocs(seq, order) ==
    LET Rank(i) == 1 + Cardinality({j \in 1..Len(seq) : Before(seq, order, j, i)})
    IN [k \in 1..Len(seq) |-> seq[CHOOSE i \in 1..Len(seq) : Rank(i) = k]]

SampleSeqs(seq, size) ==
    LET m == Min(size, Len(seq))
    IN {[k \in 1..m |-> seq[f[k]]] :
            f \in {g \in [1..m -> 1..Len(seq)] :
                      \A a, b \in 1..m : a # b => g[a] # g[b]}}

RECURSIVE Flatten(_)
Flatten(ss) == IF ss = <<>> THEN <<>> ELSE Head(ss) \o Flatten(Tail(ss))

Range(seq) == {seq[i] : i \in 1..Len(seq)}

LabelCounts(seq) ==
    {[group |-> g.group, label |-> g.label,
      count |-> Cardinality({i \in 1..Len(seq) : seq[i] = g})] : g \in Range(seq)}

LabelGroups(counts) ==
    {[_id |-> g,
      labels |-> {[label |-> c.label, count |-> c.count] :
                     c \in {x \in counts : x.group = g}}] :
        g \in {c.group : c \in counts}}

TagCounts(seq) ==
    LET tagOf == Flatten([i \in 1..Len(seq) |->
                    IF seq[i].tags = <<>> THEN <<"null">> ELSE seq[i].tags])
    IN {[_id |-> t, count |-> Cardinality({i \in 1..Len(tagOf) : tagOf[i] = t})] :
            t \in Range(tagOf)}

LabelPairs(seq) ==
    Flatten([i \in 1..Len(seq) |->
        [j \in 1..Len(seq[i].labels) |->
            [group |-> seq[i].labels[j].k, label |-> seq[i].labels[j].v]]])

\* One stage on one input: the set of its possible outputs.  A grouping
\* stage's output order is the store's choice and is kept as a set in one
\* result document list.
RunStage(st, seq) ==
    CASE st.op = "$match" ->
            LET Test(d) == MatchDoc(st, d) IN {SelectSeq(seq, Test)}
      [] st.op = "$sort" -> {SortDocs(seq, st.num)}
      [] st.op = "$limit" -> {SubSeq(seq, 1, Min(st.num, Len(seq)))}
      [] st.op = "$skip" -> {SubSeq(seq, st.num + 1, Len(seq))}
      [] st.op = "$sample" -> SampleSeqs(seq, st.num)
      [] st.op = "$count" ->
            {IF seq = <<>> THEN <<>> ELSE <<[count |-> Len(seq)]>>}
      [] st.op = "$project" /\ st.sel = "tags" ->
            {[i \in 1..Len(seq) |-> [tags |-> seq[i].tags]]}
      [] st.op = "$unwind" /\ st.sel = "$tags" ->
            {Flatten([i \in 1..Len(seq) |-> seq[i].tags])}
      [] st.op = "$group" /\ st.sel = "all_tags" ->
            {IF seq = <<>> THEN <<>>
             ELSE <<[_id |-> "None", all_tags |-> Range(seq)]>>}
      [] st.op = "$project" /\ st.sel = "label" ->
            {[i \in 1..Len(seq) |-> [labels |-> seq[i].labels]]}
      [] st.op = "$unwind" /\ st.sel = "$label" -> {LabelPairs(seq)}
      [] st.op = "$project" /\ st.sel = "group,label" -> {seq}
      [] st.op = "$group" /\ st.sel = "group,label" ->
            {IF seq = <<>> THEN <<>> ELSE <<LabelCounts(seq)>>}
      [] st.op = "$group" /\ st.sel = "group" ->
            {IF seq = <<>> THEN <<>> ELSE <<LabelGroups(seq[1])>>}
      [] st.op = "$facet" ->
            {<<[tags |-> TagCounts(seq),
                labels |-> LabelGroups(LabelCounts(LabelPairs(seq)))]>>}

RECURSIVE Run(_, _)
Run(pipeline, seq) ==
    IF pipeline = <<>> THEN {seq}
    ELSE UNION {Run(Tail(pipeline), r) : r \in RunStage(Head(pipeline), seq)}

\* Dataset._get_query_set().aggregate(pipeline): the possible outcomes.  A
\* pipeline the store rejects (a negative $limit, $skip or $sample size)
\* fails as a whole.
Execute(pipeline, docs) ==
    IF \E i \in 1..Len(pipeline) : ~StageValid(pipeline[i])
    THEN {[ok |-> FALSE, docs |-> <<>>]}
    ELSE {[ok |-> TRUE, docs |-> r] : r \in Run(pipeline, docs)}

\* Sample.from_doc(doc) bound to its dataset.
LoadSample(doc) == [doc |-> doc, dataset |-> "dataset"]

\* Dataset.__getitem__(sample_id): the stored sample, or KeyError.
DatasetGetItem(docs, sample_id) ==
    LET hit == {i \in 1..Len(docs) : docs[i]._id = ObjectId(sample_id)}
    IN IF hit = {} THEN [exc |-> "KeyError", val |-> sample_id]
       ELSE [exc |-> "", val |-> LoadSample(docs[CHOOSE i \in hit : TRUE])]

----------------------------------------------------------------------------
(* The read operations.  Each returns the set of its possible outcomes:    *)
(* the heap's lists after the call, the calls made on the owning dataset,  *)
(* and the value returned (val) or the exception raised (exc).             *)

CountStage == Stage("$count", "count", "", 0, <<>>)

TagsTemplate ==
    <<Stage("$project", "tags", "", 0, <<>>),
      Stage("$unwind", "$tags", "", 0, <<>>),
      Stage("$group", "all_tags", "", 0, <<>>)>>

LabelTemplate ==
    <<Stage("$project", "label", "", 0, <<>>),
      Stage("$unwind", "$label", "", 0, <<>>),
      Stage("$project", "group,label", "", 0, <<>>),
      Stage("$group", "group,label", "", 0, <<>>),
      Stage("$group", "group", "", 0, <<>>)>>

FacetTemplate == <<Stage("$facet", "tags,labels", "", 0, <<>>)>>

AggregateCall(pipeline) == [fn |-> "aggregate", arg |-> pipeline]
GetItemCall(sample_id) == [fn |-> "__getitem__", arg |-> sample_id]

\* aggregate as if it extended the view's own list in place (+=).
AggregateInPlace(H, self, pipeline) ==
    LET extra == IF pipeline = NoArg THEN <<>> ELSE pipeline[1]
        l == H.views[self]._pipeline
    IN [lists |-> [H.lists EXCEPT ![l] = @ \o extra],
        handed |-> H.lists[l] \o extra]

\* DatasetView.aggregate: the stage list handed to the dataset's query set.
\* pipeline is NoArg (None) or <<extra stages>>.
aggregate(H, self, pipeline) ==
    LET extra == IF pipeline = NoArg THEN <<>> ELSE pipeline[1]
    IN [lists |-> H.lists,
        handed |-> H.lists[H.views[self]._pipeline] \o extra]

\* aggregate() and the store's answer to it.
Query(H, self, pipeline, docs) ==
    LET a == aggregate(H, self, pipeline)
    IN {[lists |-> a.lists, calls |-> <<AggregateCall(a.handed)>>,
         ok |-> r.ok, docs |-> r.docs] : r \in Execute(a.handed, docs)}

Failed(q) ==
    [lists |-> q.lists, calls |-> q.calls, exc |-> "OperationFailure",
     val |-> <<>>]

\* __len__ without the except clause: next() on an empty result escapes.
LenUncaught(H, self, docs) ==
    {IF ~q.ok THEN Failed(q)
     ELSE IF q.docs = <<>>
     THEN [lists |-> q.lists, calls |-> q.calls, exc |-> "StopIteration",
           val |-> <<>>]
     ELSE [lists |-> q.lists, calls |-> q.calls, exc |-> "",
           val |-> q.docs[1].count] :
        q \in Query(H, self, <<<<CountStage>>>>, docs)}

\* DatasetView.__len__
__len__(H, self, docs) ==
    {IF ~q.ok THEN Failed(q)
     ELSE [lists |-> q.lists, calls |-> q.calls, exc |-> "",
           val |-> IF q.docs = <<>> THEN 0 ELSE q.docs[1].count] :
        q \in Query(H, self, <<<<CountStage>>>>, docs)}

\* __getitem__ as if it looked the sample up in the dataset alone.
GetItemFromDataset(H, self, sample_id, docs) ==
    LET got == DatasetGetItem(docs, sample_id)
    IN {[lists |-> H.lists, calls |-> <<GetItemCall(sample_id)>>,
         exc |-> IF ObjectId(sample_id) = InvalidId THEN "InvalidId" ELSE got.exc,
         val |-> got.val]}

\* DatasetView.__getitem__
__getitem__(H, self, sample_id, docs) ==
    IF ObjectId(sample_id) = InvalidId
    THEN {[lists |-> H.lists, calls |-> <<>>, exc |-> "InvalidId",
           val |-> sample_id]}
    ELSE {IF ~q.ok THEN Failed(q)
          ELSE IF q.docs = <<>>
          THEN [lists |-> q.lists, calls |-> q.calls, exc |-> "KeyError",
                val |-> sample_id]
          ELSE LET got == DatasetGetItem(docs, sample_id)
               IN [lists |-> q.lists,
                   calls |-> Append(q.calls, GetItemCall(sample_id)),
                   exc |-> got.exc, val |-> got.val] :
             q \in Query(H, self, <<<<MatchId(ObjectId(sample_id))>>>>, docs)}

\* DatasetView.get_tags
get_tags(H, self, docs) ==
    {IF ~q.ok THEN Failed(q)
     ELSE [lists |-> q.lists, calls |-> q.calls, exc |-> "",
           val |-> IF q.docs = <<>> THEN {} ELSE q.docs[1].all_tags] :
        q \in Query(H, self, <<TagsTemplate>>, docs)}

\* DatasetView._get_latest_offset: the last $skip stage's offset, or 0.
RECURSIVE ScanBack(_, _)
ScanBack(pipeline, i) ==
    IF i = 0 THEN 0
    ELSE IF pipeline[i].op = "$skip" THEN pipeline[i].num
    ELSE ScanBack(pipeline, i - 1)

\* The offset of the first $skip stage instead of the last.
FirstOffset(pipeline) ==
    LET skips == {i \in 1..Len(pipeline) : pipeline[i].op = "$skip"}
    IN IF skips = {} THEN 0
       ELSE pipeline[CHOOSE i \in skips : \A j \in skips : i <= j].num

_get_latest_offset(pipeline) == ScanBack(pipeline, Len(pipeline))

\* DatasetView._deserialize_sample
_deserialize_sample(d) == LoadSample(d)

\* list(view.iter_samples()): the generator run to its end.
iter_samples(H, self, docs) ==
    {IF ~q.ok THEN Failed(q)
     ELSE [lists |-> q.lists, calls |-> q.calls, exc |-> "",
           val |-> [k \in 1..Len(q.docs) |-> _deserialize_sample(q.docs[k])]] :
        q \in Query(H, self, NoArg, docs)}

\* list(view.iter_samples_with_index()): enumerate(iterator, start=offset).
iter_samples_with_index(H, self, docs) ==
    LET start == _get_latest_offset(H.lists[H.views[self]._pipeline])
    IN {IF o.exc # "" THEN o
        ELSE [o EXCEPT !.val = [k \in 1..Len(o.val) |->
                                   <<start + k - 1, o.val[k]>>]] :
           o \in iter_samples(H, self, docs)}

\* DatasetView._label_distributions
_label_distributions(H, self, docs) ==
    LET pipeline == H.lists[H.views[self]._pipeline] \o LabelTemplate
    IN {[lists |-> H.lists, calls |-> <<AggregateCall(pipeline)>>,
         exc |-> IF r.ok THEN "" ELSE "OperationFailure", val |-> r.docs] :
           r \in Execute(pipeline, docs)}

\* DatasetView._facets
_facets(H, self, docs) ==
    LET pipeline == H.lists[H.views[self]._pipeline] \o FacetTemplate
    IN {[lists |-> H.lists, calls |-> <<AggregateCall(pipeline)>>,
         exc |-> IF r.ok THEN "" ELSE "OperationFailure", val |-> r.docs] :
           r \in Execute(pipeline, docs)}

\* A caller's read of one of its views, with one of the possible outcomes.
Read(op, self, args, outcomes) ==
    \E o \in outcomes :
        /\ lists' = o.lists
        /\ calls' = o.calls
        /\ out' = [op |-> op, self |-> self, args |-> args, ret |-> 0,
                   exc |-> o.exc, val |-> o.val]
        /\ UNCHANGED <<samples, views, cursors, iters>>

CallAggregate(R) ==
    \E self \in R, pipeline \in Opt({<<>>, <<CountStage>>}) :
        Read("aggregate", self, [pipeline |-> pipeline],
             {[lists |-> q.lists, calls |-> q.calls,
               exc |-> IF q.ok THEN "" ELSE "OperationFailure",
               val |-> q.docs] : q \in Query(Heap, self, pipeline, samples)})

CallLen(R) ==
    \E self \in R : Read("__len__", self, <<>>, __len__(Heap, self, samples))

CallGetItem(R) ==
    \E self \in R, sample_id \in IdStrings :
        Read("__getitem__", self, [sample_id |-> sample_id],
             __getitem__(Heap, self, sample_id, samples))

CallGetTags(R) ==
    \E self \in R : Read("get_tags", self, <<>>, get_tags(Heap, self, samples))

CallIterSamples(R) ==
    \E self \in R :
        Read("iter_samples", self, <<>>, iter_samples(Heap, self, samples))

CallIterSamplesWithIndex(R) ==
    \E self \in R :
        Read("iter_samples_with_index", self, <<>>,
             iter_samples_with_index(Heap, self, samples))

CallLabelDistributions(R) ==
    \E self \in R :
        Read("_label_distributions", self, <<>>,
             _label_distributions(Heap, self, samples))

CallFacets(R) ==
    \E self \in R : Read("_facets", self, <<>>, _facets(Heap, self, samples))

----------------------------------------------------------------------------
(* Lazy sequences.  aggregate() returns the store's cursor over one        *)
(* execution; iter_samples() returns a generator that calls aggregate()    *)
(* when it is first advanced.  cursors[c] is one execution: the view it    *)
(* ran for, its result documents and how many were fetched.  iters[i] is   *)
(* one iterator a caller holds; at and yielded record when its execution   *)
(* ran (the number of stored documents then) and what it has yielded.      *)

\* One cursor kept per view and handed out again on later calls.
SharedCursor(C, view, docs) ==
    LET mine == {c \in 1..Len(C) : C[c].view = view}
    IN IF mine = {}
       THEN [cursors |-> Append(C, [view |-> view, docs |-> docs, pos |-> 0]),
             id |-> Len(C) + 1]
       ELSE [cursors |-> C, id |-> CHOOSE c \in mine : TRUE]

\* The query set's aggregate(): every call is a new execution with a cursor
\* of its own.
OpenCursor(C, view, docs) ==
    [cursors |-> Append(C, [view |-> view, docs |-> docs, pos |-> 0]),
     id |-> Len(C) + 1]

\* next() on a cursor: the next document, if any.
Fetch(C, c) ==
    IF C[c].pos < Len(C[c].docs)
    THEN [cursors |-> [C EXCEPT ![c].pos = @ + 1], more |-> TRUE,
          doc |-> C[c].docs[C[c].pos + 1]]
    ELSE [cursors |-> C, more |-> FALSE, doc |-> <<>>]

NewIter(kind, view) ==
    [kind |-> kind, view |-> view, state |-> "new", cursor |-> 0, at |-> 0,
     yielded |-> <<>>]

\* view.aggregate(): the execution runs at the call.
StartAggregate ==
    \E self \in AnyView :
    \E r \in Execute(aggregate(Heap, self, NoArg).handed, samples) :
        /\ Len(iters) < MaxIters
        /\ IF r.ok
           THEN LET o == OpenCursor(cursors, self, r.docs)
                IN /\ cursors' = o.cursors
                   /\ iters' = Append(iters,
                        [NewIter("aggregate", self) EXCEPT
                            !.state = "open", !.cursor = o.id,
                            !.at = Len(samples)])
           ELSE /\ cursors' = cursors
                /\ iters' = Append(iters,
                        [NewIter("aggregate", self) EXCEPT !.state = "failed"])
        /\ out' = [op |-> "aggregate", self |-> self, args |-> <<>>, ret |-> 0,
                   exc |-> IF r.ok THEN "" ELSE "OperationFailure",
                   val |-> <<>>]
        /\ calls' = <<AggregateCall(aggregate(Heap, self, NoArg).handed)>>
        /\ UNCHANGED <<samples, lists, views>>

\* view.iter_samples(): a generator; nothing runs until it is advanced.
StartIterSamples ==
    \E self \in AnyView :
        /\ Len(iters) < MaxIters
        /\ iters' = Append(iters, NewIter("iter_samples", self))
        /\ out' = [op |-> "iter_samples", self |-> self, args |-> <<>>,
                   ret |-> 0, exc |-> "", val |-> <<>>]
        /\ calls' = <<>>
        /\ UNCHANGED <<samples, lists, views, cursors>>

Yield(kind, d) == IF kind = "iter_samples" THEN _deserialize_sample(d) ELSE d

\* One step of an advanced iterator whose cursor is open.
Advance(C, it) ==
    LET f == Fetch(C, it.cursor)
    IN IF f.more
       THEN [cursors |-> f.cursors, exc |-> "",
             it |-> [it EXCEPT !.yielded = Append(@, Yield(it.kind, f.doc))]]
       ELSE [cursors |-> f.cursors, exc |-> "StopIteration",
             it |-> [it EXCEPT !.state = "done"]]

\* next(it)
Next_(i) ==
    LET it == iters[i] IN
    \E r \in Execute(aggregate(Heap, it.view, NoArg).handed, samples) :
      LET step ==
            IF it.state \in {"done", "failed"}
            THEN [cursors |-> cursors, exc |-> "StopIteration", it |-> it]
            ELSE IF it.state = "open" THEN Advance(cursors, it)
            ELSE IF ~r.ok
            THEN [cursors |-> cursors, exc |-> "OperationFailure",
                  it |-> [it EXCEPT !.state = "failed"]]
            ELSE LET o == OpenCursor(cursors, it.view, r.docs)
                 IN Advance(o.cursors,
                            [it EXCEPT !.state = "open", !.cursor = o.id,
                                       !.at = Len(samples)])
      IN /\ cursors' = step.cursors
         /\ iters' = [iters EXCEPT ![i] = step.it]
         /\ out' = [op |-> "next", self |-> i, args |-> <<>>, ret |-> 0,
                    exc |-> step.exc, val |-> <<>>]
         /\ calls' = IF it.state = "new"
                     THEN <<AggregateCall(aggregate(Heap, it.view, NoArg).handed)>>
                     ELSE <<>>
         /\ UNCHANGED <<samples, lists, views>>

PullNext == \E i \in 1..Len(iters) : Next_(i)

----------------------------------------------------------------------------
(* The owning dataset. *)

\* Dataset.add_sample, by whoever owns the dataset: the next document of
\* the pool is stored.
AddSample ==
    /\ Len(samples) < Len(DocPool)
    /\ samples' = Append(samples, DocPool[Len(samples) + 1])
    /\ out' = [op |-> "add_sample", self |-> 0, args |-> <<>>, ret |-> 0,
               exc |-> "", val |-> <<>>]
    /\ calls' = <<>>
    /\ UNCHANGED <<lists, views, cursors, iters>>

\* DatasetView.__init__ on the dataset: one view, its pipeline a new empty
\* list; the dataset holds two documents.
Init ==
    /\ samples = <<DocA, DocB>>
    /\ lists = << <<>> >>
    /\ views = <<[_pipeline |-> 1]>>
    /\ out = [op |-> "__init__", self |-> 0, args |-> <<>>, ret |-> 1,
              exc |-> "", val |-> <<>>]
    /\ calls = <<>>
    /\ cursors = <<>>
    /\ iters = <<>>

Next ==
    \/ CallFilter(AnyView, 2 * MaxViews)
    \/ CallSortBy(AnyView, 2 * MaxViews)
    \/ CallTake(AnyView, 2 * MaxViews)
    \/ CallOffset(AnyView, 2 * MaxViews)
    \/ CallSelect(AnyView, 2 * MaxViews)
    \/ CallExclude(AnyView, 2 * MaxViews)

Spec == Init /\ [][Next]_vars

\* A caller that builds a view by fluent chaining and reads it.
NextRead ==
    \/ CallFilter(LastView, MaxStages)
    \/ CallSortBy(LastView, MaxStages)
    \/ CallTake(LastView, MaxStages)
    \/ CallOffset(LastView, MaxStages)
    \/ CallSelect(LastView, MaxStages)
    \/ CallExclude(LastView, MaxStages)
    \/ AddSample
    \/ CallAggregate(LastView)
    \/ CallLen(LastView)
    \/ CallGetItem(LastView)
    \/ CallGetTags(LastView)
    \/ CallIterSamples(LastView)
    \/ CallIterSamplesWithIndex(LastView)
    \/ CallLabelDistributions(LastView)
    \/ CallFacets(LastView)

SpecRead == Init /\ [][NextRead]_vars

\* Callers that hold iterators over views and advance them in any order,
\* while the dataset grows.
NextIter ==
    \/ CallTake(LastView, MaxIterStages)
    \/ CallOffset(LastView, MaxIterStages)
    \/ CallSortBy(LastView, MaxIterStages)
    \/ AddSample
    \/ StartAggregate
    \/ StartIterSamples
    \/ PullNext

SpecIter == Init /\ [][NextIter]_vars

----------------------------------------------------------------------------
(* Properties of the chain methods, checked under Spec. *)

ChainOps == {"filter", "sort_by", "take", "offset", "select", "exclude"}

Given(arg) == IF arg = NoArg THEN 0 ELSE 1

IsPrefix(p, q) == Len(p) <= Len(q) /\ SubSeq(q, 1, Len(p)) = p

\* The stage list of every view that exists is left as it is by a step.
ViewsKept ==
    \A v \in 1..Len(views) :
        /\ v <= Len(views')
        /\ views'[v] = views[v]
        /\ lists'[views'[v]._pipeline] = lists[views[v]._pipeline]

\* C1: no chain call changes the stage list of a view that already exists,
\* whichever view it is made on; no two views share a list object; and the
\* view sort_by(f) returns holds the receiver's stages followed by the one
\* sort stage for f.
C1_StageListsImmutable ==
    /\ [][ViewsKept]_vars
    /\ [](\A v, w \in 1..Len(views) :
            v # w => views[v]._pipeline # views[w]._pipeline)
    /\ [](out.op = "sort_by" =>
            /\ out.exc = ""
            /\ Pipeline(out.ret) =
                 Append(Pipeline(out.self),
                        [op |-> "$sort", sel |-> out.args.field, str |-> "",
                         num |-> IF out.args.reverse THEN -1 ELSE 1,
                         ids |-> <<>>]))

\* C1's case: a view was derived from the first view by sort_by, and a later
\* chain call on the returned view built a third view.
C1_Witness ==
    /\ Len(views) = 3
    /\ Pipeline(1) = <<>>
    /\ Len(Pipeline(2)) = 1 /\ Pipeline(2)[1].op = "$sort"
    /\ out.op \in ChainOps /\ out.self = 2 /\ out.ret = 3
    /\ Len(Pipeline(3)) = 2

GroupGiven(o) ==
    o.op = "filter" /\ (o.args.insight_group # NoArg \/ o.args.label_group # NoArg)

\* C7: filter with insight_group or label_group raises NotImplementedError
\* whatever else is given: it returns no view, calls nothing on the dataset
\* and leaves every view and list as it was.
C7_GroupFiltersFailFast ==
    /\ [](GroupGiven(out) =>
            out.exc = "NotImplementedError" /\ out.ret = 0 /\ calls = <<>>)
    /\ [][GroupGiven(out') => lists' = lists /\ views' = views]_vars

\* C7's case: label_group given together with tag and filter, on a view that
\* has a stage.
C7_Witness ==
    /\ out.op = "filter" /\ out.exc = "NotImplementedError"
    /\ out.args.label_group # NoArg /\ out.args.insight_group = NoArg
    /\ out.args.tag # NoArg /\ out.args.filter # NoArg
    /\ Len(Pipeline(out.self)) = 1

Malformed(sample_ids) ==
    \E i \in 1..Len(sample_ids) : ObjectId(sample_ids[i]) = InvalidId

IdCall(o) == o.op \in {"select", "exclude"}

NativeId(oid) == Len(oid) = 12 /\ \A j \in 1..12 : oid[j] \in 0..255

\* C8: select and exclude with a malformed id raise InvalidId at the call,
\* return no view and leave every view and list as it was; with none
\* malformed they succeed; and every id in a select or exclude stage of any
\* view is a parsed, native id.
C8_IdsParsedAtTheCall ==
    /\ [](IdCall(out) =>
            IF Malformed(out.args.sample_ids)
            THEN out.exc = "InvalidId" /\ out.ret = 0
            ELSE out.exc = "" /\ out.ret # 0)
    /\ [][IdCall(out') /\ Malformed(out'.args.sample_ids) =>
            lists' = lists /\ views' = views]_vars
    /\ [](\A v \in 1..Len(views) : \A i \in 1..Len(Pipeline(v)) :
            Pipeline(v)[i].sel \in {"_id.$in", "_id.$not.$in"} =>
                \A k \in 1..Len(Pipeline(v)[i].ids) :
                    NativeId(Pipeline(v)[i].ids[k]))

\* C8's case: a failed call with a malformed id after a well formed one, made
\* on a view that already holds a select stage.
C8_Witness ==
    /\ out.op = "exclude" /\ out.exc = "InvalidId"
    /\ out.args.sample_ids = <<IdA, IdShort>>
    /\ Len(Pipeline(out.self)) = 1
    /\ Pipeline(out.self)[1].sel = "_id.$in"

\* C9 as stated: take and offset reject a negative argument at the call, and
\* no view holds a limit, sample or skip stage with a negative parameter.
C9_NegativeArgumentsRejected ==
    /\ out.op = "take" /\ out.args.size < 0 => out.exc # ""
    /\ out.op = "offset" /\ out.args.offset < 0 => out.exc # ""
    /\ \A v \in 1..Len(views) : \A i \in 1..Len(Pipeline(v)) :
          Pipeline(v)[i].op \in {"$limit", "$sample", "$skip"} =>
              Pipeline(v)[i].num >= 0

----------------------------------------------------------------------------
(* Properties of the read operations, checked under SpecRead. *)

ReadOps ==
    {"aggregate", "__len__", "__getitem__", "get_tags", "iter_samples",
     "iter_samples_with_index", "_label_distributions", "_facets"}

\* The stages a read operation adds after the view's own.
ExtraStages(o) ==
    CASE o.op = "aggregate" ->
            IF o.args.pipeline = NoArg THEN <<>> ELSE o.args.pipeline[1]
      [] o.op = "__len__" ->
            <<[op |-> "$count", sel |-> "count", str |-> "", num |-> 0,
               ids |-> <<>>]>>
      [] o.op = "__getitem__" ->
            <<[op |-> "$match", sel |-> "_id", str |-> "", num |-> 0,
               ids |-> <<ObjectId(o.args.sample_id)>>]>>
      [] o.op = "get_tags" -> TagsTemplate
      [] o.op \in {"iter_samples", "iter_samples_with_index"} -> <<>>
      [] o.op = "_label_distributions" -> LabelTemplate
      [] o.op = "_facets" -> FacetTemplate

\* A read that reached the store (__getitem__ stops before it on a malformed
\* id).
Executes(o) ==
    /\ o.op \in ReadOps
    /\ o.op = "__getitem__" => ObjectId(o.args.sample_id) # InvalidId

\* C3: a read operation hands the dataset's query set exactly the view's own
\* stages followed by the operation's extra stages, once, and leaves every
\* view's stage list as it was.
C3_ViewStagesThenExtraStages ==
    /\ [](Executes(out) =>
            /\ calls # <<>>
            /\ calls[1] = [fn |-> "aggregate",
                           arg |-> Pipeline(out.self) \o ExtraStages(out)]
            /\ \A i \in 2..Len(calls) : calls[i].fn # "aggregate")
    /\ [][out'.op \in ReadOps => lists' = lists /\ views' = views]_vars

\* C3's case: get_tags on a view with two stages hands over five stages.
C3_Witness ==
    /\ out.op = "get_tags" /\ out.exc = ""
    /\ Len(Pipeline(out.self)) = 2
    /\ Len(calls[1].arg) = 5
    /\ calls[1].arg[3].op = "$project"

Max(S) == CHOOSE x \in S : \A y \in S : y <= x

\* C4: iter_samples_with_index pairs the k-th sample of the view's result
\* with base + k - 1, base being the parameter of the last $skip stage of
\* the view's stage list, or 0 when it has none.
C4_IndexFromLastSkip ==
    (out.op = "iter_samples_with_index" /\ out.exc = "") =>
        LET p == Pipeline(out.self)
            skips == {i \in 1..Len(p) : p[i].op = "$skip"}
            base == IF skips = {} THEN 0 ELSE p[Max(skips)].num
        IN /\ \A k \in 1..Len(out.val) :
                /\ out.val[k][1] = base + k - 1
                /\ out.val[k][2].dataset = "dataset"
           /\ [ok |-> TRUE, docs |-> [k \in 1..Len(out.val) |-> out.val[k][2].doc]]
                \in Execute(p, samples)

\* C4's case: two skip stages with different parameters, and samples left
\* to yield.
C4_Witness ==
    /\ out.op = "iter_samples_with_index" /\ out.exc = ""
    /\ Len(Pipeline(out.self)) = 2
    /\ Pipeline(out.self)[1].op = "$skip" /\ Pipeline(out.self)[2].op = "$skip"
    /\ Pipeline(out.self)[1].num = 1 /\ Pipeline(out.self)[2].num = 0
    /\ Len(out.val) = 2
    /\ out.val[2][1] = 1

WellFormed(o) == o.op = "__getitem__" /\ ObjectId(o.args.sample_id) # InvalidId

InResult(sample_id, r) ==
    \E k \in 1..Len(r.docs) : r.docs[k]._id = ObjectId(sample_id)

\* C5: for a well formed id whose lookup the store runs, __getitem__ raises
\* KeyError carrying the id when the view's stages followed by the match on
\* the id yield no document, and the dataset is not asked; otherwise it
\* returns what the dataset's own lookup of the id returns.  It succeeds
\* only for an id in a result of the view, and fails only for an id missing
\* from one (the same one unless the view samples at random).
C5_FoundThroughViewFetchedFromDataset ==
    (WellFormed(out) /\ out.exc # "OperationFailure") =>
        LET id == out.args.sample_id
            p == Pipeline(out.self)
            probe == Execute(Append(p, MatchId(ObjectId(id))), samples)
        IN IF out.exc = "KeyError"
           THEN /\ [ok |-> TRUE, docs |-> <<>>] \in probe
                /\ out.val = id
                /\ Len(calls) = 1
                /\ \E r \in Execute(p, samples) : ~InResult(id, r)
           ELSE /\ out.exc = ""
                /\ \E r \in probe : r.docs # <<>>
                /\ Len(calls) = 2
                /\ calls[2] = [fn |-> "__getitem__", arg |-> id]
                /\ out.val.dataset = "dataset"
                /\ out.val.doc._id = ObjectId(id)
                /\ out.val.doc \in Range(samples)
                /\ \E r \in Execute(p, samples) : InResult(id, r)

\* C5's case: the id of a stored sample that the view leaves out.
C5_Witness ==
    /\ out.op = "__getitem__" /\ out.exc = "KeyError"
    /\ out.args.sample_id = IdAUpper
    /\ Len(Pipeline(out.self)) = 2
    /\ DatasetGetItem(samples, out.args.sample_id).exc = ""

\* C6: when the store runs the pipeline, __len__ and get_tags never raise:
\* __len__ returns 0 when the count pipeline yields no document and the
\* document's count otherwise; get_tags returns an empty collection when
\* its pipeline yields no document and the document's tags otherwise.
C6_EmptyResultsAreNormal ==
    /\ (out.op = "__len__" /\ out.exc # "OperationFailure") =>
          /\ out.exc = ""
          /\ \E r \in Execute(Append(Pipeline(out.self), CountStage), samples) :
                IF r.docs = <<>> THEN out.val = 0
                ELSE out.val = r.docs[1].count /\ out.val > 0
    /\ (out.op = "get_tags" /\ out.exc # "OperationFailure") =>
          /\ out.exc = ""
          /\ \E r \in Execute(Pipeline(out.self) \o TagsTemplate, samples) :
                IF r.docs = <<>> THEN out.val = {}
                ELSE out.val = r.docs[1].all_tags /\ out.val # {}

\* C6's case: the count of a view whose stages leave no sample.
C6_Witness ==
    /\ out.op = "__len__" /\ out.exc = "" /\ out.val = 0
    /\ Len(Pipeline(out.self)) >= 1
    /\ \A i \in 1..Len(Pipeline(out.self)) : Pipeline(out.self)[i].op = "$match"

----------------------------------------------------------------------------
(* Properties of lazy sequences, checked under SpecIter. *)

Running(it) == it.state \in {"open", "done"}

\* What an iterator has yielded is the head of its own execution's result.
YieldsOwnResult(it) ==
    LET c == cursors[it.cursor]
        n == Len(it.yielded)
    IN /\ c.view = it.view
       /\ n <= Len(c.docs)
       /\ \A k \in 1..n :
            it.yielded[k] = IF it.kind = "iter_samples"
                            THEN [doc |-> c.docs[k], dataset |-> "dataset"]
                            ELSE c.docs[k]
       /\ it.state = "done" => n = Len(c.docs)

\* C10: every iterator has an execution of its own, run on the store as it
\* was when the iterator opened it; whatever the order in which iterators
\* are advanced, each yields its execution's result in order and in full;
\* advancing one changes no other; an exhausted iterator stays exhausted.
C10_IndependentExecutions ==
    /\ [](\A i \in 1..Len(iters) : Running(iters[i]) => YieldsOwnResult(iters[i]))
    /\ [](\A i, j \in 1..Len(iters) :
            (i # j /\ Running(iters[i]) /\ Running(iters[j])) =>
                iters[i].cursor # iters[j].cursor)
    /\ [][\A i \in 1..Len(iters) :
            (~Running(iters[i]) /\ Running(iters'[i])) =>
                [ok |-> TRUE, docs |-> cursors'[iters'[i].cursor].docs]
                    \in Execute(Pipeline(iters[i].view), samples)]_vars
    /\ [][\A i \in 1..Len(iters) :
            (out'.op # "next" \/ out'.self # i \/ iters[i].state = "done")
                => iters'[i] = iters[i]]_vars

\* C10's case: two iterators over one view, opened before and after the
\* dataset grew; the later one ran to its end while the earlier one was
\* part of the way through.
C10_Witness ==
    /\ Len(iters) = 2
    /\ iters[1].view = iters[2].view
    /\ iters[1].kind = "iter_samples" /\ iters[2].kind = "iter_samples"
    /\ iters[1].state = "open" /\ Len(iters[1].yielded) = 1
    /\ iters[1].at = 2 /\ iters[2].at = 3
    /\ iters[2].state = "done" /\ Len(iters[2].yielded) = 3
    /\ out.op = "next" /\ out.self = 2 /\ out.exc = "StopIteration"

====
